---- MODULE Spec2Model ----
(***************************************************************************)
(* A model of the synthetic data generator of enrichment-confidence-roi    *)
(* (src/ecc/dgp/generate.py, src/ecc/dgp/schemas.py, src/ecc/utils.py).    *)
(*                                                                         *)
(* Reals are fixed-point integers in units of 1/Scale (1.0 is Scale); the  *)
(* float NaN is the reserved integer NaN, which no computation produces    *)
(* otherwise.  Every arithmetic helper propagates NaN and every comparison *)
(* with NaN is false, as in IEEE arithmetic.                               *)
(*                                                                         *)
(* The process-global numpy generator is the variable rng: a state in      *)
(* 0..RngMod-1, advanced by one step per value drawn.  Each distribution   *)
(* is a fixed function of the state reached, so a stream is a function of  *)
(* the state it starts from and of nothing else.                           *)
(*                                                                         *)
(* A table (pandas DataFrame) is a record [cols, rows]: the set of column  *)
(* names and the sequence of rows, each row a function from cols.          *)
(***************************************************************************)
EXTENDS Integers, Sequences, FiniteSets, TLC

VARIABLES pc, args, rng, draws, df_users, df_user_week, err, ret, calls, run, first

vars == <<pc, args, rng, draws, df_users, df_user_week, err, ret, calls, run, first>>

\* ------------------------------------------------------------------ bounds
Scale == 100
RngMod == 8
MaxUsers == 2
MaxWeeks == 3
MaxRows == 2

\* ------------------------------------------------------- program constants
DefaultSeed == 7
DefaultT0Week == 1
DefaultRetentionWeek == 5

NaN == -999999

\* ------------------------------------------------------ float arithmetic
IsNaN(x) == x = NaN

FAdd(a, b) == IF IsNaN(a) \/ IsNaN(b) THEN NaN ELSE a + b

FSub(a, b) == IF IsNaN(a) \/ IsNaN(b) THEN NaN ELSE a - b

FNeg(a) == IF IsNaN(a) THEN NaN ELSE 0 - a

\* a * b of two fixed-point values, rounded toward zero
FMul(a, b) ==
    IF IsNaN(a) \/ IsNaN(b) THEN NaN
    ELSE IF a * b >= 0 THEN (a * b) \div Scale ELSE 0 - ((0 - a * b) \div Scale)

\* a / b of two fixed-point values, rounded toward zero; 0/0 and x/0 are NaN
FDiv(a, b) ==
    IF IsNaN(a) \/ IsNaN(b) \/ b = 0 THEN NaN
    ELSE IF (a >= 0) = (b > 0)
         THEN ((IF a >= 0 THEN a ELSE 0 - a) * Scale) \div (IF b > 0 THEN b ELSE 0 - b)
         ELSE 0 - (((IF a >= 0 THEN a ELSE 0 - a) * Scale) \div (IF b > 0 THEN b ELSE 0 - b))

FLt(a, b) == ~IsNaN(a) /\ ~IsNaN(b) /\ a < b

FGt(a, b) == ~IsNaN(a) /\ ~IsNaN(b) /\ a > b

RECURSIVE ISqrt(_)
ISqrt(n) ==
    IF n < 2 THEN n
    ELSE LET s == 2 * ISqrt(n \div 4)
         IN IF (s + 1) * (s + 1) <= n THEN s + 1 ELSE s

RECURSIVE SumSeq(_)
SumSeq(s) == IF s = <<>> THEN 0 ELSE FAdd(Head(s), SumSeq(Tail(s)))

\* np.exp: e^(k/2) by repeated multiplication with e^(1/2) ~ 1.65, the
\* argument rounded down to a half unit and clamped to [-10, 10]
RECURSIVE ExpHalf(_)
ExpHalf(k) ==
    IF k = 0 THEN Scale
    ELSE IF k > 0 THEN (ExpHalf(k - 1) * 165) \div 100
    ELSE (ExpHalf(k + 1) * 100) \div 165

np_exp(x) ==
    IF IsNaN(x) THEN NaN
    ELSE LET k == (2 * x) \div Scale
         IN ExpHalf(IF k > 20 THEN 20 ELSE IF k < -20 THEN -20 ELSE k)

\* a faulty _sigmoid, against which C8 is tested: the latent score is handed
\* on unsquashed
_sigmoid_identity(x) == x

_sigmoid(x) == FDiv(Scale, FAdd(Scale, np_exp(FNeg(x))))

np_mean(x) == IF Len(x) = 0 THEN NaN ELSE FDiv(SumSeq(x), Len(x) * Scale)

np_std(x) ==
    IF Len(x) = 0 THEN NaN
    ELSE LET mu == np_mean(x)
             sq == [i \in 1..Len(x) |-> (x[i] - mu) * (x[i] - mu)]
         IN ISqrt(SumSeq(sq) \div Len(x))

np_zeros_like(x) == [i \in 1..Len(x) |-> 0]

\* a faulty _zscore, against which C9 is tested: the guard against a zero
\* standard deviation is missing
_zscore_unguarded(x) ==
    LET mu == np_mean(x)
        sigma == np_std(x)
    IN [i \in 1..Len(x) |-> FDiv(FSub(x[i], mu), sigma)]

_zscore(x) ==
    LET mu == np_mean(x)
        sigma == np_std(x)
    IN IF sigma = 0 THEN np_zeros_like(x)
       ELSE [i \in 1..Len(x) |-> FDiv(FSub(x[i], mu), sigma)]

\* ------------------------------------------------- the global generator
\* a faulty set_seed, against which C1 is tested: the generator is not
\* reseeded and goes on from where it is
set_seed_skipped(seed) == rng

\* np.random.seed(seed): the generator state is a function of the seed alone
set_seed(seed) == seed % RngMod

\* one step of the generator
RngStep(g) == (5 * g + 3) % RngMod

\* the state after drawing k values from state g
RECURSIVE RngAfter(_, _)
RngAfter(g, k) == IF k = 0 THEN g ELSE RngAfter(RngStep(g), k - 1)

\* the uniform value in [0, 1) read off a generator state
Uniform(g) == (g * Scale) \div RngMod

\* a standard normal deviate read off a generator state: -1, -1/2, 0, 1/2, 1
StdNormal(g) == ((g % 5) - 2) * (Scale \div 2)

\* np.random.beta(a=5.0, b=2.2): a value of [0, 1]
np_random_beta(g) == (g * Scale) \div (RngMod - 1)

\* np.random.normal(loc, scale)
np_random_normal(loc, scale, g) == FAdd(loc, FMul(scale, StdNormal(g)))

\* np.random.lognormal(mean, sigma) = exp(normal(mean, sigma))
np_random_lognormal(mean, sigma, g) == np_exp(np_random_normal(mean, sigma, g))

\* np.random.poisson(lam): a count near lam, never negative
np_random_poisson(lam, g) ==
    LET n == (lam \div Scale) + (g % 3) - 1 IN IF n < 0 THEN 0 ELSE n

\* np.random.binomial(n=1, p)
np_random_binomial(p, g) == IF Uniform(g) < p THEN 1 ELSE 0

\* ---------------------------------------------------------------- tables
UserTraitCols ==
    {"user_id", "feed_quality", "txn_complexity", "baseline_engagement",
     "feed_quality_z", "txn_complexity_z", "baseline_engagement_z"}

UserWeekCols == {"user_id", "week", "n_txn", "confidence", "edit_rate"}

EmptyTable == [cols |-> {}, rows |-> <<>>]

\* the column col of table df as an array
Column(df, col) == [i \in 1..Len(df.rows) |-> df.rows[i][col]]

\* np.repeat(x, k): each element k times in a row
np_repeat(x, k) == [i \in 1..(Len(x) * k) |-> x[((i - 1) \div k) + 1]]

\* a faulty np.tile, against which C2 is tested: each element k times in a
\* row, as np.repeat does
np_tile_as_repeat(x, k) == [i \in 1..(Len(x) * k) |-> x[((i - 1) \div k) + 1]]

\* np.tile(x, k): the whole array k times over
np_tile(x, k) == [i \in 1..(Len(x) * k) |-> x[((i - 1) % Len(x)) + 1]]

\* np.arange(lo, hi)
np_arange(lo, hi) == [i \in 1..(IF hi > lo THEN hi - lo ELSE 0) |-> lo + i - 1]

\* ---------------------------------------------------------------- errors
NoError == [kind |-> "none", name |-> "", cols |-> <<>>, count |-> 0]

ValueError(where) == [kind |-> "ValueError", name |-> where, cols |-> <<>>, count |-> 0]

\* what a generator step hands back: an error or a table, the generator
\* state it leaves behind and the number of values it drew
Outcome(e, df, g, n) == [err |-> e, df |-> df, rng |-> g, drawn |-> n]

\* -------------------------------------------------- generate_user_traits
generate_user_traits(n_users, seed) ==
    LET g0 == set_seed(seed)
    IN IF n_users < 0
       THEN Outcome(ValueError("np.random.beta"), EmptyTable, g0, 0)
       ELSE
       LET user_id == np_arange(1, n_users + 1)
           feed_quality == [i \in 1..n_users |-> np_random_beta(RngAfter(g0, i))]
           txn_complexity ==
               [i \in 1..n_users |->
                   np_random_lognormal(0, 60, RngAfter(g0, n_users + i))]
           baseline_engagement ==
               [i \in 1..n_users |->
                   np_random_lognormal(0, 70, RngAfter(g0, 2 * n_users + i))]
           fz == _zscore(feed_quality)
           cz == _zscore(txn_complexity)
           ez == _zscore(baseline_engagement)
           rows == [i \in 1..n_users |->
                       [user_id |-> user_id[i],
                        feed_quality |-> feed_quality[i],
                        txn_complexity |-> txn_complexity[i],
                        baseline_engagement |-> baseline_engagement[i],
                        feed_quality_z |-> fz[i],
                        txn_complexity_z |-> cz[i],
                        baseline_engagement_z |-> ez[i]]]
       IN Outcome(NoError, [cols |-> UserTraitCols, rows |-> rows],
                  RngAfter(g0, 3 * n_users), 3 * n_users)

\* ------------------------------------------------------------- DGPParams
\* the defaults of the dataclass, in units of 1/100
DGPParams ==
    [alpha_c |-> 100, b_f |-> 120, b_c |-> 100, b_e |-> 20, sigma_c_week |-> 60,
     alpha_e |-> -180, tau_e |-> 200, g_c |-> 80, g_e |-> 40, g_f |-> 30,
     sigma_e |-> 50,
     alpha_n |-> 220, beta_ne |-> 55,
     alpha_r |-> -30, delta_e |-> 140, delta_f |-> 40, delta_c |-> 10,
     tau_r |-> 80, kappa_r |-> 100, sigma_r |-> 40]

\* ---------------------------------------------------- generate_user_week
generate_user_week(users, n_weeks, params, seed) ==
    LET g0 == set_seed(seed)
        n_users == Len(users.rows)
    IN IF n_weeks < 0
       THEN Outcome(ValueError("np.repeat"), EmptyTable, g0, 0)
       ELSE
       LET n == n_users * n_weeks
           weeks == np_arange(1, n_weeks + 1)
           user_id_rep == np_repeat(Column(users, "user_id"), n_weeks)
           week_rep == np_tile(weeks, n_users)
           fz == np_repeat(Column(users, "feed_quality_z"), n_weeks)
           cz == np_repeat(Column(users, "txn_complexity_z"), n_weeks)
           ez == np_repeat(Column(users, "baseline_engagement_z"), n_weeks)
           lam == [i \in 1..n |->
                      np_exp(FAdd(params.alpha_n, FMul(params.beta_ne, ez[i])))]
       IN IF \E i \in 1..n : IsNaN(lam[i]) \/ lam[i] < 0
          THEN Outcome(ValueError("np.random.poisson"), EmptyTable, g0, 0)
          ELSE
          LET n_txn == [i \in 1..n |-> np_random_poisson(lam[i], RngAfter(g0, i))]
          IN IF FLt(params.sigma_c_week, 0)
             THEN Outcome(ValueError("np.random.normal"), EmptyTable,
                          RngAfter(g0, n), n)
             ELSE
             LET u == [i \in 1..n |->
                          np_random_normal(0, params.sigma_c_week, RngAfter(g0, n + i))]
                 conf_latent ==
                     [i \in 1..n |->
                         FAdd(FAdd(FSub(FAdd(params.alpha_c, FMul(params.b_f, fz[i])),
                                        FMul(params.b_c, cz[i])),
                                   FMul(params.b_e, ez[i])),
                              u[i])]
                 confidence == [i \in 1..n |-> _sigmoid(conf_latent[i])]
             IN IF FLt(params.sigma_e, 0)
                THEN Outcome(ValueError("np.random.normal"), EmptyTable,
                             RngAfter(g0, 2 * n), 2 * n)
                ELSE
                LET eps == [i \in 1..n |->
                               np_random_normal(0, params.sigma_e,
                                                RngAfter(g0, 2 * n + i))]
                    edit_latent ==
                        [i \in 1..n |->
                            FAdd(FAdd(FAdd(FAdd(FSub(params.alpha_e,
                                                     FMul(params.tau_e, confidence[i])),
                                                FMul(params.g_c, cz[i])),
                                           FMul(params.g_e, ez[i])),
                                      FMul(params.g_f, FNeg(fz[i]))),
                                 eps[i])]
                    edit_rate == [i \in 1..n |-> _sigmoid(edit_latent[i])]
                    rows == [i \in 1..n |->
                                [user_id |-> user_id_rep[i],
                                 week |-> week_rep[i],
                                 n_txn |-> n_txn[i],
                                 confidence |-> confidence[i],
                                 edit_rate |-> edit_rate[i]]]
                IN Outcome(NoError, [cols |-> UserWeekCols, rows |-> rows],
                           RngAfter(g0, 3 * n), 3 * n)

\* --------------------------------------------------- build_wk4_retention
\* Series.mean(): the mean of the values that are not null, NaN if none is
RECURSIVE DropNulls(_)
DropNulls(x) ==
    IF x = <<>> THEN <<>>
    ELSE IF IsNaN(Head(x)) THEN DropNulls(Tail(x))
    ELSE <<Head(x)>> \o DropNulls(Tail(x))

pandas_mean(x) == np_mean(DropNulls(x))

\* Series.fillna(value)
fillna(x, value) == [i \in 1..Len(x) |-> IF IsNaN(x[i]) THEN value ELSE x[i]]

\* a faulty exposure window, against which C5 is tested: it runs up to the
\* retention week
exposure_weeks_to_retention(t0_week, retention_week) == t0_week .. (retention_week - 1)

\* list(range(t0_week, t0_week + 4))
exposure_weeks(t0_week, retention_week) == t0_week .. (t0_week + 3)

\* df_user_week[df_user_week.week.isin(exposure_weeks)]
ExposureRows(user_week, weeks) ==
    LET InWindow(r) == r.week \in weeks IN SelectSeq(user_week.rows, InWindow)

\* groupby(user_id).agg(mean) of one column, for the group of user uid
GroupMean(rows, uid, col) ==
    LET Mine(r) == r.user_id = uid
        mine == SelectSeq(rows, Mine)
    IN pandas_mean([i \in 1..Len(mine) |-> mine[i][col]])

\* df_exp.groupby(user_id, as_index=False).agg(conf_mean=..., edit_mean=...):
\* one record per user_id that occurs in df_exp
groupby_agg(exp_rows) ==
    {[user_id |-> uid,
      conf_mean |-> GroupMean(exp_rows, uid, "confidence"),
      edit_mean |-> GroupMean(exp_rows, uid, "edit_rate")] :
        uid \in {exp_rows[j].user_id : j \in 1..Len(exp_rows)}}

\* a faulty merge, against which C10 is tested: an inner join, which drops
\* the users that agg has no group for
merge_inner(users, agg) ==
    LET Matched(r) == \E a \in agg : a.user_id = r.user_id
        kept == SelectSeq(users.rows, Matched)
    IN [i \in 1..Len(kept) |->
           LET a == CHOOSE a \in agg : a.user_id = kept[i].user_id
           IN kept[i] @@ [conf_mean |-> a.conf_mean, edit_mean |-> a.edit_mean]]

\* df_users.merge(agg, on=user_id, how="left"): every row of df_users, in
\* order, with the aggregates of its user_id, null where agg has no such group
merge_left(users, agg) ==
    [i \in 1..Len(users.rows) |->
        IF \E a \in agg : a.user_id = users.rows[i].user_id
        THEN LET a == CHOOSE a \in agg : a.user_id = users.rows[i].user_id
             IN users.rows[i] @@ [conf_mean |-> a.conf_mean, edit_mean |-> a.edit_mean]
        ELSE users.rows[i] @@ [conf_mean |-> NaN, edit_mean |-> NaN]]

\* df[col] = value: the rows with column col set from the array
SetColumn(rows, col, value) ==
    [i \in 1..Len(rows) |->
        [c \in (DOMAIN rows[i]) \cup {col} |-> IF c = col THEN value[i] ELSE rows[i][c]]]

RowsColumn(rows, col) == [i \in 1..Len(rows) |-> rows[i][col]]

build_wk4_retention(users, user_week, t0_week, retention_week, params, seed) ==
    LET g0 == set_seed(seed)
        df_exp == ExposureRows(user_week, exposure_weeks(t0_week, retention_week))
        agg == groupby_agg(df_exp)
        df0 == merge_left(users, agg)
        df1 == SetColumn(df0, "conf_mean",
                         fillna(RowsColumn(df0, "conf_mean"),
                                pandas_mean(RowsColumn(df0, "conf_mean"))))
        df == SetColumn(df1, "edit_mean",
                        fillna(RowsColumn(df1, "edit_mean"),
                               pandas_mean(RowsColumn(df1, "edit_mean"))))
        n == Len(df)
        fz == RowsColumn(df, "feed_quality_z")
        cz == RowsColumn(df, "txn_complexity_z")
        ez == RowsColumn(df, "baseline_engagement_z")
        conf_mean == RowsColumn(df, "conf_mean")
        edit_mean == RowsColumn(df, "edit_mean")
    IN IF FLt(params.sigma_r, 0)
       THEN Outcome(ValueError("np.random.normal"), EmptyTable, g0, 0)
       ELSE
       LET nu == [i \in 1..n |-> np_random_normal(0, params.sigma_r, RngAfter(g0, i))]
           ret_latent ==
               [i \in 1..n |->
                   FAdd(FSub(FAdd(FAdd(FAdd(FAdd(params.alpha_r,
                                                 FMul(params.delta_e, ez[i])),
                                            FMul(params.delta_f, fz[i])),
                                       FMul(params.delta_c, cz[i])),
                                  FMul(params.tau_r, conf_mean[i])),
                             FMul(params.kappa_r, edit_mean[i])),
                        nu[i])]
           p_ret == [i \in 1..n |-> _sigmoid(ret_latent[i])]
       IN IF \E i \in 1..n : IsNaN(p_ret[i]) \/ p_ret[i] < 0 \/ p_ret[i] > Scale
          THEN Outcome(ValueError("np.random.binomial"), EmptyTable,
                       RngAfter(g0, n), n)
          ELSE
          LET wk4_retention ==
                  [i \in 1..n |-> np_random_binomial(p_ret[i], RngAfter(g0, n + i))]
          IN Outcome(NoError,
                     [cols |-> users.cols \cup {"conf_mean", "edit_mean", "wk4_retention"},
                      rows |-> SetColumn(df, "wk4_retention", wk4_retention)],
                     RngAfter(g0, 2 * n), 2 * n)

\* --------------------------------------------------------------- schemas
ValidationError(kind, name, cols, count) ==
    [kind |-> kind, name |-> name, cols |-> cols, count |-> count]

\* the columns of the list cols that satisfy Bad, in the order of the list
RECURSIVE Offending(_, _)
Offending(cols, bad) ==
    IF cols = <<>> THEN <<>>
    ELSE (IF Head(cols) \in bad THEN <<Head(cols)>> ELSE <<>>)
         \o Offending(Tail(cols), bad)

SeqToSet(s) == {s[i] : i \in 1..Len(s)}

_require_columns(df, cols, name) ==
    LET missing == Offending(cols, SeqToSet(cols) \ df.cols)
    IN IF missing # <<>>
       THEN ValidationError("missing required columns", name, missing, 0)
       ELSE NoError

_require_no_nulls(df, cols, name) ==
    LET null_cols ==
            Offending(cols, {c \in SeqToSet(cols) :
                                \E i \in 1..Len(df.rows) : IsNaN(df.rows[i][c])})
    IN IF null_cols # <<>>
       THEN ValidationError("found nulls in columns", name, null_cols, 0)
       ELSE NoError

\* a faulty _require_range, against which C7 is tested: only the upper end
\* of the interval is checked
_require_range_upper_only(df, col, lo, hi, name) ==
    LET bad == {i \in 1..Len(df.rows) : FGt(df.rows[i][col], hi)}
    IN IF bad # {}
       THEN ValidationError("out of range", name, <<col>>, Cardinality(bad))
       ELSE NoError

_require_range(df, col, lo, hi, name) ==
    LET bad == {i \in 1..Len(df.rows) :
                   FLt(df.rows[i][col], lo) \/ FGt(df.rows[i][col], hi)}
    IN IF bad # {}
       THEN ValidationError("out of range", name, <<col>>, Cardinality(bad))
       ELSE NoError

\* the first error of a list of checks made in order, NoError if none fails
RECURSIVE FirstError(_)
FirstError(checks) ==
    IF checks = <<>> THEN NoError
    ELSE IF Head(checks) # NoError THEN Head(checks)
    ELSE FirstError(Tail(checks))

UserRequired ==
    <<"user_id", "feed_quality", "txn_complexity", "baseline_engagement",
      "feed_quality_z", "txn_complexity_z", "baseline_engagement_z", "wk4_retention">>

validate_user_df(df) ==
    LET e1 == _require_columns(df, UserRequired, "users")
    IN IF e1 # NoError THEN e1
       ELSE FirstError(<<_require_no_nulls(df, UserRequired, "users"),
                         _require_range(df, "feed_quality", 0, Scale, "users"),
                         _require_range(df, "wk4_retention", 0, 1, "users")>>)

UserWeekRequired == <<"user_id", "week", "confidence", "edit_rate", "n_txn">>

validate_user_week_df(df) ==
    LET e1 == _require_columns(df, UserWeekRequired, "user_week")
    IN IF e1 # NoError THEN e1
       ELSE FirstError(
            <<_require_no_nulls(df, UserWeekRequired, "user_week"),
              _require_range(df, "confidence", 0, Scale, "user_week"),
              _require_range(df, "edit_rate", 0, Scale, "user_week"),
              IF \E i \in 1..Len(df.rows) : FLt(df.rows[i].week, 1)
              THEN ValidationError("must start at 1", "user_week", <<"week">>, 0)
              ELSE NoError,
              IF \E i \in 1..Len(df.rows) : FLt(df.rows[i].n_txn, 0)
              THEN ValidationError("must be non-negative", "user_week", <<"n_txn">>, 0)
              ELSE NoError>>)

\* ------------------------------------------------------ generate_dataset
\* a faulty generate_dataset, against which C4 is tested: the tables are
\* returned without being validated
generate_dataset_unvalidated(step, e) ==
    IF e # NoError THEN "raised"
    ELSE CASE step = "generate_user_traits" -> "generate_user_week"
           [] step = "generate_user_week" -> "build_wk4_retention"
           [] step = "build_wk4_retention" -> "returned"
           [] step = "validate_user_week_df" -> "validate_user_df"
           [] step = "validate_user_df" -> "returned"

\* where generate_dataset goes after the step it has just run: out with the
\* error if the step raised, on to the next line otherwise
generate_dataset_next(step, e) ==
    IF e # NoError THEN "raised"
    ELSE CASE step = "generate_user_traits" -> "generate_user_week"
           [] step = "generate_user_week" -> "build_wk4_retention"
           [] step = "build_wk4_retention" -> "validate_user_week_df"
           [] step = "validate_user_week_df" -> "validate_user_df"
           [] step = "validate_user_df" -> "returned"

\* parameter bundles a caller passes: the defaults, a bundle whose latent
\* scores saturate the logistic, and a malformed bundle holding a NaN
ParamBundles ==
    {DGPParams,
     [DGPParams EXCEPT !.alpha_c = 3000, !.alpha_e = -3000],
     [DGPParams EXCEPT !.alpha_c = NaN]}

Seeds == {DefaultSeed, DefaultSeed + 1}

DatasetArgs ==
    [n_users : -1..MaxUsers,
     n_weeks : 0..MaxWeeks,
     seed : Seeds,
     params : ParamBundles,
     t0_week : {DefaultT0Week, DefaultT0Week + 1},
     retention_week : {DefaultRetentionWeek, DefaultRetentionWeek + 1}]

NoResult == [rng0 |-> 0, err |-> NoError, ret |-> <<>>]

Finished == pc \in {"returned", "raised"}

Init ==
    /\ pc = "generate_user_traits"
    /\ args \in DatasetArgs
    /\ rng \in 0..(RngMod - 1)
    /\ draws = 0
    /\ df_users = EmptyTable
    /\ df_user_week = EmptyTable
    /\ err = NoError
    /\ ret = <<>>
    /\ calls = <<>>
    /\ run = 1
    /\ first = [NoResult EXCEPT !.rng0 = rng]

\* one line of generate_dataset has run: a generator step with outcome o
\* that binds users and user_week, recorded as call
Advance(step, o, users, user_week, call) ==
    /\ pc' = generate_dataset_next(step, o.err)
    /\ err' = o.err
    /\ rng' = o.rng
    /\ draws' = draws + o.drawn
    /\ df_users' = users
    /\ df_user_week' = user_week
    /\ calls' = Append(calls, call)
    /\ ret' = IF pc' = "returned" THEN <<users, user_week>> ELSE <<>>
    /\ UNCHANGED <<args, run, first>>

GenerateUserTraits ==
    /\ pc = "generate_user_traits"
    /\ LET o == generate_user_traits(args.n_users, args.seed)
       IN Advance("generate_user_traits", o,
                  IF o.err = NoError THEN o.df ELSE df_users, df_user_week,
                  <<"generate_user_traits", args.seed>>)

GenerateUserWeek ==
    /\ pc = "generate_user_week"
    /\ LET o == generate_user_week(df_users, args.n_weeks, args.params, args.seed)
       IN Advance("generate_user_week", o,
                  df_users, IF o.err = NoError THEN o.df ELSE df_user_week,
                  <<"generate_user_week", args.seed, args.params>>)

BuildWk4Retention ==
    /\ pc = "build_wk4_retention"
    /\ LET o == build_wk4_retention(df_users, df_user_week, args.t0_week,
                                    args.retention_week, args.params, args.seed)
       IN Advance("build_wk4_retention", o,
                  IF o.err = NoError THEN o.df ELSE df_users, df_user_week,
                  <<"build_wk4_retention", args.seed, args.params>>)

ValidateUserWeek ==
    /\ pc = "validate_user_week_df"
    /\ Advance("validate_user_week_df",
               Outcome(validate_user_week_df(df_user_week), EmptyTable, rng, 0),
               df_users, df_user_week, <<"validate_user_week_df">>)

ValidateUser ==
    /\ pc = "validate_user_df"
    /\ Advance("validate_user_df",
               Outcome(validate_user_df(df_users), EmptyTable, rng, 0),
               df_users, df_user_week, <<"validate_user_df">>)

\* the caller invokes generate_dataset again with the same arguments; other
\* code has used the global generator in between, which is in another state
\* than the one the first invocation started from
Reinvoke ==
    /\ Finished
    /\ run = 1
    /\ \E g \in (0..(RngMod - 1)) \ {first.rng0} : rng' = g
    /\ first' = [rng0 |-> 0, err |-> err, ret |-> ret]
    /\ run' = 2
    /\ pc' = "generate_user_traits"
    /\ draws' = 0
    /\ df_users' = EmptyTable
    /\ df_user_week' = EmptyTable
    /\ err' = NoError
    /\ ret' = <<>>
    /\ calls' = <<>>
    /\ UNCHANGED args

Next ==
    \/ GenerateUserTraits
    \/ GenerateUserWeek
    \/ BuildWk4Retention
    \/ ValidateUserWeek
    \/ ValidateUser
    \/ Reinvoke

Spec == Init /\ [][Next]_vars

\* ------------------------------------------- _zscore called on its own
\* trait arrays a caller can pass: up to MaxUsers + 1 non-negative values
ZValues == {0, 1, 40, Scale, 3 * Scale}

ZArrays == UNION {[1..k -> ZValues] : k \in 0..(MaxUsers + 1)}

InitZscore ==
    /\ pc = "_zscore"
    /\ args \in [x : ZArrays]
    /\ rng = 0
    /\ draws = 0
    /\ df_users = EmptyTable
    /\ df_user_week = EmptyTable
    /\ err = NoError
    /\ ret = <<>>
    /\ calls = <<>>
    /\ run = 1
    /\ first = NoResult

ApplyZscore ==
    /\ pc = "_zscore"
    /\ ret' = <<_zscore(args.x)>>
    /\ pc' = "returned"
    /\ calls' = Append(calls, <<"_zscore">>)
    /\ UNCHANGED <<args, rng, draws, df_users, df_user_week, err, run, first>>

NextZscore == ApplyZscore

SpecZscore == InitZscore /\ [][NextZscore]_vars

\* ----------------------------- validate_user_week_df called on its own
\* the rows a caller can put in a table: each cell holds a valid value, a
\* value out of the column's range, or a null
CallerRows ==
    [user_id : {1, NaN},
     week : {0, 1},
     confidence : {-1, 50},
     edit_rate : {50, Scale + 1, NaN},
     n_txn : {-1, 0}]

RowsOver(cs) == {[c \in cs |-> r[c]] : r \in CallerRows}

InitValidate ==
    /\ pc = "caller"
    /\ args \in {[df |-> [cols |-> cs, rows |-> <<>>]] : cs \in SUBSET UserWeekCols}
    /\ rng = 0
    /\ draws = 0
    /\ df_users = EmptyTable
    /\ df_user_week = EmptyTable
    /\ err = NoError
    /\ ret = <<>>
    /\ calls = <<>>
    /\ run = 1
    /\ first = NoResult

\* the caller appends a row to the table it is about to validate
CallerAddsRow ==
    /\ pc = "caller"
    /\ Len(args.df.rows) < MaxRows
    /\ \E r \in RowsOver(args.df.cols) :
        args' = [df |-> [cols |-> args.df.cols, rows |-> Append(args.df.rows, r)]]
    /\ UNCHANGED <<pc, rng, draws, df_users, df_user_week, err, ret, calls, run, first>>

CallValidateUserWeek ==
    /\ pc = "caller"
    /\ err' = validate_user_week_df(args.df)
    /\ pc' = IF err' = NoError THEN "returned" ELSE "raised"
    /\ calls' = Append(calls, <<"validate_user_week_df">>)
    /\ UNCHANGED <<args, rng, draws, df_users, df_user_week, ret, run, first>>

NextValidate == CallerAddsRow \/ CallValidateUserWeek

SpecValidate == InitValidate /\ [][NextValidate]_vars

\* ------------------------------- build_wk4_retention called on its own
\* user tables as generate_user_traits makes them
UserTables == {generate_user_traits(n, s).df : n \in 0..MaxUsers, s \in Seeds}

\* weeks before, inside and after the exposure windows of the start weeks
WindowWeeks == {DefaultT0Week, DefaultT0Week + 1, DefaultT0Week + 4}

\* user-week rows whose metrics are a function of the user and the week
UserWeekRow(uid, wk) ==
    [user_id |-> uid, week |-> wk, n_txn |-> wk,
     confidence |-> 10 * wk + 3 * uid, edit_rate |-> Scale - (10 * wk + 3 * uid)]

ExposureTables ==
    {[cols |-> UserWeekCols, rows |-> rs] :
        rs \in UNION {[1..k -> {UserWeekRow(uid, wk) :
                                   uid \in 1..MaxUsers, wk \in WindowWeeks}] :
                      k \in 0..MaxRows}}

RetentionArgs ==
    [df_users : UserTables,
     df_user_week : ExposureTables,
     t0_week : {DefaultT0Week, DefaultT0Week + 1},
     retention_week : {DefaultRetentionWeek, DefaultRetentionWeek + 1},
     params : {DGPParams},
     seed : {DefaultSeed}]

InitRetention ==
    /\ pc = "build_wk4_retention"
    /\ args \in RetentionArgs
    /\ df_users = args.df_users
    /\ df_user_week = args.df_user_week
    /\ rng = 0
    /\ draws = 0
    /\ err = NoError
    /\ ret = <<>>
    /\ calls = <<>>
    /\ run = 1
    /\ first = NoResult

CallBuildWk4Retention ==
    /\ pc = "build_wk4_retention"
    /\ LET o == build_wk4_retention(df_users, df_user_week, args.t0_week,
                                    args.retention_week, args.params, args.seed)
       IN /\ err' = o.err
          /\ rng' = o.rng
          /\ draws' = draws + o.drawn
          /\ pc' = IF o.err = NoError THEN "returned" ELSE "raised"
          /\ ret' = IF o.err = NoError THEN <<o.df>> ELSE <<>>
    /\ calls' = Append(calls, <<"build_wk4_retention", args.seed, args.params>>)
    /\ UNCHANGED <<args, df_users, df_user_week, run, first>>

NextRetention == CallBuildWk4Retention

SpecRetention == InitRetention /\ [][NextRetention]_vars

\* ================================================================ claims
\* the sum of x over the index set S
RECURSIVE SumOver(_, _)
SumOver(x, S) ==
    IF S = {} THEN 0
    ELSE LET i == CHOOSE i \in S : TRUE IN x[i] + SumOver(x, S \ {i})

\* m is the mean of x over the non-empty index set S, rounded toward zero
\* (the values are non-negative)
IsMeanOver(m, x, S) ==
    /\ Cardinality(S) * m <= SumOver(x, S)
    /\ SumOver(x, S) < Cardinality(S) * (m + 1)

\* sd is the population standard deviation of x about m, rounded down
IsPopulationStd(sd, x, m) ==
    LET n == Len(x)
        var == SumOver([i \in 1..n |-> (x[i] - m) * (x[i] - m)], 1..n) \div n
    IN sd >= 0 /\ sd * sd <= var /\ var < (sd + 1) * (sd + 1)

\* q is a / b for b > 0, rounded toward zero
IsQuotient(q, a, b) ==
    IF a >= 0 THEN q >= 0 /\ q * b <= a * Scale /\ a * Scale < (q + 1) * b
    ELSE q <= 0 /\ (0 - q) * b <= (0 - a) * Scale /\ (0 - a) * Scale < (1 - q) * b

\* C9: _zscore returns one value per input value; when the population
\* standard deviation of the input is exactly zero (always so for a single
\* value) every z-value is exactly 0 and none is NaN (no division by zero
\* happened); otherwise each z-value is (x - mean(x)) / std(x) with the mean
\* and the standard deviation taken over the whole array.
C9_ZscoreDegenerate ==
    (pc = "returned") =>
        LET x == args.x
            z == ret[1]
            n == Len(x)
        IN /\ Len(z) = n
           /\ n = 1 => z = <<0>>
           /\ n >= 1 =>
                \E m \in 0..(3 * Scale) :
                    /\ IsMeanOver(m, x, 1..n)
                    /\ \E sd \in 0..(3 * Scale) :
                        /\ IsPopulationStd(sd, x, m)
                        /\ \A i \in 1..n :
                            /\ ~IsNaN(z[i])
                            /\ IF sd = 0 THEN z[i] = 0
                               ELSE IsQuotient(z[i], x[i] - m, sd)

\* a constant array of several positive values has been z-scored to zeros
C9_Witness ==
    /\ pc = "returned"
    /\ Len(args.x) >= 2
    /\ \A i \in 1..Len(args.x) : args.x[i] = Scale
    /\ \A i \in 1..Len(args.x) : ret[1][i] = 0

\* the required columns a table lacks, those holding a null, and those
\* holding a value outside their range
C7_MissingCols == {c \in UserWeekCols : c \notin args.df.cols}

C7_NullCols ==
    {c \in UserWeekCols : \E i \in 1..Len(args.df.rows) : IsNaN(args.df.rows[i][c])}

C7_RangeCols ==
    {c \in {"confidence", "edit_rate"} :
        \E i \in 1..Len(args.df.rows) :
            args.df.rows[i][c] < 0 \/ args.df.rows[i][c] > Scale}
    \cup {c \in {"week"} : \E i \in 1..Len(args.df.rows) : args.df.rows[i][c] < 1}
    \cup {c \in {"n_txn"} : \E i \in 1..Len(args.df.rows) : args.df.rows[i][c] < 0}

\* C7: validate_user_week_df fails with an error naming the table and the
\* missing columns if a required column is absent; otherwise with an error
\* naming the columns that hold nulls; otherwise with an error naming an
\* offending column if a confidence or edit_rate is outside [0,1], a week is
\* below 1 or an n_txn is negative; and returns normally only if none holds.
C7_NeverSilentlyPasses ==
    Finished =>
        IF C7_MissingCols # {}
        THEN /\ pc = "raised"
             /\ err.kind = "missing required columns"
             /\ err.name = "user_week"
             /\ SeqToSet(err.cols) = C7_MissingCols
        ELSE IF C7_NullCols # {}
        THEN /\ pc = "raised"
             /\ err.kind = "found nulls in columns"
             /\ err.name = "user_week"
             /\ SeqToSet(err.cols) = C7_NullCols
        ELSE IF C7_RangeCols # {}
        THEN /\ pc = "raised"
             /\ err.name = "user_week"
             /\ Len(err.cols) = 1
             /\ err.cols[1] \in C7_RangeCols
        ELSE pc = "returned" /\ err = NoError

\* a complete table without nulls whose only fault is a row with n_txn = -1
\* has been rejected with an error naming n_txn
C7_Witness ==
    /\ pc = "raised"
    /\ args.df.cols = UserWeekCols
    /\ \E i \in 1..Len(args.df.rows) : args.df.rows[i].n_txn = -1
    /\ err.cols = <<"n_txn">>

\* the indices of the user-week rows of user uid whose week lies in
\* [t0_week, t0_week + 3]
WindowIdx(uid) ==
    {j \in 1..Len(df_user_week.rows) :
        /\ df_user_week.rows[j].user_id = uid
        /\ args.t0_week <= df_user_week.rows[j].week
        /\ df_user_week.rows[j].week <= args.t0_week + 3}

\* the indices of the users that have a row in the exposure window
UsersInWindow ==
    {i \in 1..Len(df_users.rows) : WindowIdx(df_users.rows[i].user_id) # {}}

\* C5: build_wk4_retention aggregates, for each user, exactly the user-week
\* rows whose week lies in [t0_week, t0_week + 3] (conf_mean and edit_mean are
\* the means of confidence and edit_rate over those rows only), and the table
\* it returns is the same whatever retention_week is passed.
C5_WindowIndependentOfRetentionWeek ==
    (pc # "build_wk4_retention") =>
        /\ (pc = "returned") =>
            \A i \in UsersInWindow :
                LET S == WindowIdx(df_users.rows[i].user_id)
                IN /\ IsMeanOver(ret[1].rows[i].conf_mean,
                                 Column(df_user_week, "confidence"), S)
                   /\ IsMeanOver(ret[1].rows[i].edit_mean,
                                 Column(df_user_week, "edit_rate"), S)
        /\ \A rw \in {DefaultRetentionWeek, DefaultRetentionWeek + 1} :
            LET o == build_wk4_retention(df_users, df_user_week, args.t0_week, rw,
                                         args.params, args.seed)
            IN /\ o.err = err
               /\ (err = NoError) => (o.df = ret[1])

\* a user with one row inside the window and one row after it has been
\* aggregated, with a retention week other than t0_week + 4
C5_Witness ==
    /\ pc = "returned"
    /\ args.retention_week # args.t0_week + 4
    /\ \E i \in UsersInWindow :
        \E j \in 1..Len(df_user_week.rows) :
            /\ df_user_week.rows[j].user_id = df_users.rows[i].user_id
            /\ df_user_week.rows[j].week > args.t0_week + 3

\* C6: build_wk4_retention completes without error on every input, and every
\* user without a row in the exposure window gets conf_mean and edit_mean
\* equal to the mean of the aggregates of the users that have one, while
\* users with window rows keep their own aggregate.
C6_GrandMeanFallback ==
    (pc # "build_wk4_retention") =>
        /\ pc = "returned"
        /\ err = NoError
        /\ \A i \in (1..Len(df_users.rows)) \ UsersInWindow :
            /\ IsMeanOver(ret[1].rows[i].conf_mean,
                          Column(ret[1], "conf_mean"), UsersInWindow)
            /\ IsMeanOver(ret[1].rows[i].edit_mean,
                          Column(ret[1], "edit_mean"), UsersInWindow)
        /\ \A i \in UsersInWindow :
            IsMeanOver(ret[1].rows[i].conf_mean, Column(df_user_week, "confidence"),
                       WindowIdx(df_users.rows[i].user_id))

\* the columns build_wk4_retention adds
C10_Added == {"conf_mean", "edit_mean", "wk4_retention"}

\* C10: build_wk4_retention leaves the tables passed to it as they were and
\* returns a table with one row per input user, in the input order, every
\* input column unchanged, and exactly the columns conf_mean, edit_mean and
\* wk4_retention added.
C10_Frame ==
    (pc = "returned") =>
        /\ df_users = args.df_users
        /\ df_user_week = args.df_user_week
        /\ ret[1].cols = args.df_users.cols \cup C10_Added
        /\ Len(ret[1].rows) = Len(args.df_users.rows)
        /\ \A i \in 1..Len(args.df_users.rows) :
            /\ DOMAIN ret[1].rows[i] = args.df_users.cols \cup C10_Added
            /\ \A c \in args.df_users.cols :
                ret[1].rows[i][c] = args.df_users.rows[i][c]
            /\ ~IsNaN(ret[1].rows[i].conf_mean)
            /\ ~IsNaN(ret[1].rows[i].edit_mean)
            /\ ret[1].rows[i].wk4_retention \in {0, 1}

\* a table has been returned for two users of whom only the second has a
\* row in the exposure window
C10_Witness ==
    /\ pc = "returned"
    /\ Len(args.df_users.rows) = 2
    /\ UsersInWindow = {2}
    /\ ret[1].rows[1].user_id = 1

\* C1: two invocations of generate_dataset with the same seed, n_users,
\* n_weeks and parameter bundle end the same way and return identical user
\* tables and identical user-week tables, whatever the state of the global
\* generator was before each of them.
C1_Deterministic ==
    (run = 2 /\ Finished) => (ret = first.ret /\ err = first.err)

\* a second invocation, started from another generator state than the
\* first, has returned tables for several users and weeks
C1_Witness ==
    /\ run = 2
    /\ pc = "returned"
    /\ Len(ret[1].rows) >= 2
    /\ Len(ret[2].rows) >= 4

\* the (user_id, week) pairs of a user-week table
C2_Pairs(df) == {<<df.rows[j].user_id, df.rows[j].week>> : j \in 1..Len(df.rows)}

\* C2: for n_users >= 1 and n_weeks >= 1 the user table generate_dataset
\* returns has exactly n_users rows, with user_id 1..n_users each once, and
\* the user-week table has exactly n_users * n_weeks rows whose
\* (user_id, week) pairs are pairwise distinct and are exactly
\* [1..n_users] x [1..n_weeks].
C2_Shape ==
    (pc = "returned" /\ args.n_users >= 1 /\ args.n_weeks >= 1) =>
        /\ Len(ret[1].rows) = args.n_users
        /\ {ret[1].rows[i].user_id : i \in 1..Len(ret[1].rows)} = 1..args.n_users
        /\ Len(ret[2].rows) = args.n_users * args.n_weeks
        /\ Cardinality(C2_Pairs(ret[2])) = Len(ret[2].rows)
        /\ C2_Pairs(ret[2]) = (1..args.n_users) \X (1..args.n_weeks)

\* tables for several users over several weeks have been returned
C2_Witness ==
    /\ pc = "returned"
    /\ args.n_users = 2
    /\ args.n_weeks = 3
    /\ Len(ret[2].rows) = 6

\* C3: generate_user_traits called with n_users <= 0 raises an error to the
\* caller before any random value is drawn, and returns no table.
C3_NonPositiveRejected ==
    (args.n_users <= 0 /\ Len(calls) >= 1) =>
        /\ pc = "raised"
        /\ err.kind = "ValueError"
        /\ draws = 0
        /\ df_users = EmptyTable

\* the calls generate_dataset makes, in order
C4_Steps ==
    <<<<"generate_user_traits", args.seed>>,
      <<"generate_user_week", args.seed, args.params>>,
      <<"build_wk4_retention", args.seed, args.params>>,
      <<"validate_user_week_df">>,
      <<"validate_user_df">>>>

\* C4: generate_dataset runs trait generation, weekly generation and
\* retention labelling in that order with one seed and one parameter bundle,
\* returns only after validate_user_week_df and then validate_user_df have
\* succeeded on the tables it returns, and when a step or a validation fails
\* it raises and returns nothing.
C4_OrderedAndValidated ==
    /\ Len(calls) <= Len(C4_Steps)
    /\ calls = SubSeq(C4_Steps, 1, Len(calls))
    /\ (pc = "returned") =>
        /\ calls = C4_Steps
        /\ ret = <<df_users, df_user_week>>
        /\ validate_user_week_df(ret[2]) = NoError
        /\ validate_user_df(ret[1]) = NoError
    /\ (pc # "returned") => (ret = <<>>)
    /\ (err # NoError) => (pc = "raised")

\* a dataset has been returned after both validations ran
C4_Witness ==
    /\ pc = "returned"
    /\ Len(calls) = 5
    /\ Len(ret[1].rows) >= 1
    /\ Len(ret[2].rows) >= 1

\* the user-week bounds; with nullable, a metric may also be NaN
C8_UserWeekInRange(df, nullable) ==
    \A j \in 1..Len(df.rows) :
        /\ \A c \in {"confidence", "edit_rate"} :
            \/ nullable /\ IsNaN(df.rows[j][c])
            \/ 0 <= df.rows[j][c] /\ df.rows[j][c] <= Scale
        /\ df.rows[j].n_txn >= 0
        /\ df.rows[j].week >= 1

\* C8: in the tables generate_dataset returns every feed_quality is in
\* [0,1], every wk4_retention in {0,1}, every confidence and edit_rate in
\* [0,1], every n_txn >= 0 and every week >= 1; the generators already make
\* the values so, up to the NaN a malformed bundle yields, which never
\* reaches the validations.
C8_Bounds ==
    /\ (pc \notin {"generate_user_traits", "raised"}) =>
        \A i \in 1..Len(df_users.rows) :
            0 <= df_users.rows[i].feed_quality /\ df_users.rows[i].feed_quality <= Scale
    /\ (pc = "build_wk4_retention") => C8_UserWeekInRange(df_user_week, TRUE)
    /\ (pc \in {"validate_user_week_df", "validate_user_df"}) =>
        /\ C8_UserWeekInRange(df_user_week, FALSE)
        /\ \A i \in 1..Len(df_users.rows) : df_users.rows[i].wk4_retention \in {0, 1}
    /\ (pc = "returned") =>
        /\ C8_UserWeekInRange(ret[2], FALSE)
        /\ \A i \in 1..Len(ret[1].rows) :
            /\ 0 <= ret[1].rows[i].feed_quality
            /\ ret[1].rows[i].feed_quality <= Scale
            /\ ret[1].rows[i].wk4_retention \in {0, 1}

\* tables have been returned in which a confidence is exactly 1 and an
\* edit_rate exactly 0, the ends of the closed interval
C8_Witness ==
    /\ pc = "returned"
    /\ \E j \in 1..Len(ret[2].rows) :
        ret[2].rows[j].confidence = Scale /\ ret[2].rows[j].edit_rate = 0

====
